---- MODULE Spec2Model ----
(***************************************************************************)
(* Model of bitcoin/core/serialize.py: the bounded stream reader, the      *)
(* VarInt codec, the length-prefixed byte codec, the vector codecs and the *)
(* equality of Serializable objects.                                       *)
(*                                                                         *)
(* Python integers are unbounded and a VarInt spans 0 .. 2^64-1, while a   *)
(* TLC integer has 32 bits.  A Python int is therefore the record          *)
(* [neg, w]: a sign and a magnitude of four base-2^16 limbs, least         *)
(* significant first.  Byte strings are sequences over 0..255.  A call     *)
(* returns the record [exc, val, f]: the exception raised (NoExc when it   *)
(* returned), the value returned (or the exception's arguments) and the    *)
(* stream as the call left it.                                             *)
(***************************************************************************)
EXTENDS Integers, Sequences, FiniteSets, TLC

\* ------------------------------------------------------------ Python ints

Limb == 256 * 256

FromNat(a) == [neg |-> FALSE, w |-> <<a % Limb, a \div Limb, 0, 0>>]

Neg(a) == [neg |-> TRUE, w |-> <<a % Limb, a \div Limb, 0, 0>>]

MagCmp(a, b) ==
    LET d == {k \in 1..4 : a[k] # b[k]} IN
    IF d = {} THEN 0
    ELSE LET k == CHOOSE x \in d : \A y \in d : y <= x IN
         IF a[k] < b[k] THEN -1 ELSE 1

Cmp(x, y) ==
    IF x.neg # y.neg THEN (IF x.neg THEN -1 ELSE 1)
    ELSE IF x.neg THEN MagCmp(y.w, x.w) ELSE MagCmp(x.w, y.w)

Lt(x, y) == Cmp(x, y) < 0

Le(x, y) == Cmp(x, y) <= 0

Gt(x, y) == Cmp(x, y) > 0

\* The value of a non-negative int below 2^31 as a TLC integer.
ToNat(x) == x.w[1] + Limb * x.w[2]

\* ----------------------------------------------------------------- calls

NoExc == "NoExc"

\* The call returned v.
Ok(v, f) == [exc |-> NoExc, typ |-> "value", val |-> v, f |-> f]

\* The call returned None.
OkNone(f) == [exc |-> NoExc, typ |-> "NoneType", val |-> <<>>, f |-> f]

\* The call raised e(args).
Raise(e, args, f) == [exc |-> e, typ |-> "exception", val |-> args, f |-> f]

\* The exception classes and their base class.
Base(cls) ==
    CASE cls = "SerializationError" -> "Exception"
      [] cls = "SerializationTruncationError" -> "Exception"
      [] cls = "ValueError" -> "Exception"
      [] cls = "AssertionError" -> "Exception"
      [] cls = "struct.error" -> "Exception"
      [] OTHER -> "BaseException"

\* Whether "except cls" catches an exception of class exc.
Catches(cls, exc) ==
    /\ exc # NoExc
    /\ \/ exc = cls
       \/ Base(exc) = cls
       \/ Base(Base(exc)) = cls

\* ---------------------------------------------------------------- struct

LE16(l) == <<l % 256, l \div 256>>

bchr(x) == <<x>>

bord(x) == x[1]

pack_H(i) == LE16(i.w[1])

pack_I(i) == LE16(i.w[1]) \o LE16(i.w[2])

pack_Q(i) == LE16(i.w[1]) \o LE16(i.w[2]) \o LE16(i.w[3]) \o LE16(i.w[4])

\* struct.pack raises struct.error for a value outside the format's range.
InRange_H(i) == ~i.neg /\ i.w[2] = 0 /\ i.w[3] = 0 /\ i.w[4] = 0

InRange_I(i) == ~i.neg /\ i.w[3] = 0 /\ i.w[4] = 0

InRange_Q(i) == ~i.neg

unpack_H(s) == [neg |-> FALSE, w |-> <<s[1] + 256 * s[2], 0, 0, 0>>]

unpack_I(s) ==
    [neg |-> FALSE, w |-> <<s[1] + 256 * s[2], s[3] + 256 * s[4], 0, 0>>]

unpack_Q(s) ==
    [neg |-> FALSE,
     w |-> <<s[1] + 256 * s[2], s[3] + 256 * s[4],
             s[5] + 256 * s[6], s[7] + 256 * s[8]>>]

\* "<i": a 32-bit signed integer, two's complement.  A TLC integer has
\* exactly this range.
pack_i(x) ==
    LET u == IF x >= 0 THEN x ELSE (x + 2147483647) + 1
        top == (u \div 16777216) + (IF x >= 0 THEN 0 ELSE 128)
    IN  <<u % 256, (u \div 256) % 256, (u \div Limb) % 256, top>>

unpack_i(s) ==
    LET u == s[1] + 256 * s[2] + Limb * s[3] + 16777216 * (s[4] % 128)
    IN  IF s[4] >= 128 THEN (u - 2147483647) - 1 ELSE u

\* --------------------------------------------------------------- BytesIO

BytesIO(buf) == [buf |-> buf, pos |-> 0]

getvalue(f) == f.buf

\* f.read(n): at most n bytes from the cursor on; everything when n < 0.
BytesIO_read(f, n) ==
    LET rem == Len(f.buf) - f.pos
        cnt == IF n.neg \/ Lt(FromNat(rem), n) THEN rem ELSE ToNat(n)
    IN  [data |-> SubSeq(f.buf, f.pos + 1, f.pos + cnt),
         f |-> [buf |-> f.buf, pos |-> f.pos + cnt]]

\* f.write(b): over the bytes at the cursor, extending the buffer.
BytesIO_write(f, b) ==
    [buf |-> SubSeq(f.buf, 1, f.pos) \o b
             \o SubSeq(f.buf, f.pos + Len(b) + 1, Len(f.buf)),
     pos |-> f.pos + Len(b)]

\* -------------------------------------------------------------- ser_read

MAX_SIZE == 33554432

\* Mutant: a read of exactly the bytes that are left counts as truncated.
ser_read_check_le(rd, n) ==
    IF Le(FromNat(Len(rd.data)), n)
    THEN Raise("SerializationTruncationError",
               [requested |-> n, actual |-> Len(rd.data)], rd.f)
    ELSE Ok(rd.data, rd.f)

\* rd is f.read(n): the bytes read and the stream after the read.
ser_read_check(rd, n) ==
    IF Lt(FromNat(Len(rd.data)), n)
    THEN Raise("SerializationTruncationError",
               [requested |-> n, actual |-> Len(rd.data)], rd.f)
    ELSE Ok(rd.data, rd.f)

\* Mutant: the size is checked after the read.
ser_read_late(f, n) ==
    IF Gt(n, FromNat(MAX_SIZE))
    THEN Raise("SerializationError",
               "Asked to read 0x%x bytes; MAX_SIZE exceeded",
               BytesIO_read(f, n).f)
    ELSE ser_read_check(BytesIO_read(f, n), n)

ser_read(f, n) ==
    IF Gt(n, FromNat(MAX_SIZE))
    THEN Raise("SerializationError",
               "Asked to read 0x%x bytes; MAX_SIZE exceeded", f)
    ELSE ser_read_check(BytesIO_read(f, n), n)

\* "a; then(a)": the statements after a call run only when it returned; an
\* exception leaves the function at once, with the stream as the call left it.
Try(a, then(_)) == IF a.exc # NoExc THEN a ELSE then(a)

\* ------------------------------------------------------ VarIntSerializer

\* f.write(bchr(marker)); f.write(struct.pack(fmt, i))
write_packed(f, marker, inrange, packed) ==
    IF inrange THEN OkNone(BytesIO_write(BytesIO_write(f, bchr(marker)), packed))
    ELSE Raise("struct.error", "argument out of range",
               BytesIO_write(f, bchr(marker)))

\* Mutant: 0xfd itself is written in the one-byte tier.
VarIntSerializer_stream_serialize_fd(i, f) ==
    IF Lt(i, FromNat(0))
    THEN Raise("ValueError", "varint must be non-negative integer", f)
    ELSE IF Le(i, FromNat(253))
    THEN OkNone(BytesIO_write(f, bchr(ToNat(i))))
    ELSE IF Le(i, FromNat(65535))
    THEN write_packed(f, 253, InRange_H(i), pack_H(i))
    ELSE IF Le(i, [neg |-> FALSE, w |-> <<65535, 65535, 0, 0>>])
    THEN write_packed(f, 254, InRange_I(i), pack_I(i))
    ELSE write_packed(f, 255, InRange_Q(i), pack_Q(i))

\* Mutant: 0xffff is left to the five-byte tier.
VarIntSerializer_stream_serialize_ffff(i, f) ==
    IF Lt(i, FromNat(0))
    THEN Raise("ValueError", "varint must be non-negative integer", f)
    ELSE IF Lt(i, FromNat(253))
    THEN OkNone(BytesIO_write(f, bchr(ToNat(i))))
    ELSE IF Lt(i, FromNat(65535))
    THEN write_packed(f, 253, InRange_H(i), pack_H(i))
    ELSE IF Le(i, [neg |-> FALSE, w |-> <<65535, 65535, 0, 0>>])
    THEN write_packed(f, 254, InRange_I(i), pack_I(i))
    ELSE write_packed(f, 255, InRange_Q(i), pack_Q(i))

VarIntSerializer_stream_serialize(i, f) ==
    IF Lt(i, FromNat(0))
    THEN Raise("ValueError", "varint must be non-negative integer", f)
    ELSE IF Lt(i, FromNat(253))
    THEN OkNone(BytesIO_write(f, bchr(ToNat(i))))
    ELSE IF Le(i, FromNat(65535))
    THEN write_packed(f, 253, InRange_H(i), pack_H(i))
    ELSE IF Le(i, [neg |-> FALSE, w |-> <<65535, 65535, 0, 0>>])
    THEN write_packed(f, 254, InRange_I(i), pack_I(i))
    ELSE write_packed(f, 255, InRange_Q(i), pack_Q(i))

\* Mutant: every marker is followed by a read of eight bytes.
VarIntSerializer_stream_deserialize_wide(f) ==
    Try(ser_read(f, FromNat(1)), LAMBDA a :
        IF bord(a.val) < 253
        THEN Ok(FromNat(bord(a.val)), a.f)
        ELSE IF bord(a.val) = 253
        THEN Try(ser_read(a.f, FromNat(8)),
                 LAMBDA b : Ok(unpack_H(b.val), b.f))
        ELSE IF bord(a.val) = 254
        THEN Try(ser_read(a.f, FromNat(8)),
                 LAMBDA b : Ok(unpack_I(b.val), b.f))
        ELSE Try(ser_read(a.f, FromNat(8)),
                 LAMBDA b : Ok(unpack_Q(b.val), b.f)))

VarIntSerializer_stream_deserialize(f) ==
    Try(ser_read(f, FromNat(1)), LAMBDA a :
        IF bord(a.val) < 253
        THEN Ok(FromNat(bord(a.val)), a.f)
        ELSE IF bord(a.val) = 253
        THEN Try(ser_read(a.f, FromNat(2)),
                 LAMBDA b : Ok(unpack_H(b.val), b.f))
        ELSE IF bord(a.val) = 254
        THEN Try(ser_read(a.f, FromNat(4)),
                 LAMBDA b : Ok(unpack_I(b.val), b.f))
        ELSE Try(ser_read(a.f, FromNat(8)),
                 LAMBDA b : Ok(unpack_Q(b.val), b.f)))

\* ------------------------------------------------------- BytesSerializer

\* Mutant: the length is written as one byte, whatever it is.
BytesSerializer_stream_serialize_short(b, f) ==
    OkNone(BytesIO_write(BytesIO_write(f, bchr(Len(b) % 256)), b))

BytesSerializer_stream_serialize(b, f) ==
    Try(VarIntSerializer_stream_serialize(FromNat(Len(b)), f),
        LAMBDA a : OkNone(BytesIO_write(a.f, b)))

BytesSerializer_stream_deserialize(f) ==
    Try(VarIntSerializer_stream_deserialize(f),
        LAMBDA l : ser_read(l.f, l.val))

\* ----------------------------------------------------- VarStringSerializer

VarStringSerializer_stream_serialize(s, f) ==
    Try(VarIntSerializer_stream_serialize(FromNat(Len(s)), f),
        LAMBDA l : OkNone(BytesIO_write(l.f, s)))

VarStringSerializer_stream_deserialize(f) ==
    Try(VarIntSerializer_stream_deserialize(f),
        LAMBDA l : ser_read(l.f, l.val))

\* ------------------------------------------------------ VectorSerializer

\* inner_cls.stream_serialize(obj, f) and inner_cls.stream_deserialize(f)
\* for the element codecs the vectors are used with here.
inner_stream_serialize(inner_cls, obj, f) ==
    IF inner_cls = "VarIntSerializer"
    THEN VarIntSerializer_stream_serialize(obj, f)
    ELSE BytesSerializer_stream_serialize(obj, f)

inner_stream_deserialize(inner_cls, f) ==
    IF inner_cls = "VarIntSerializer"
    THEN VarIntSerializer_stream_deserialize(f)
    ELSE BytesSerializer_stream_deserialize(f)

\* The outcome of a function with a loop over elements: calls counts the
\* element calls made, elem is the exception of the one that failed.
\* The loop was left by the exception of its element call e.
Abort(e, calls) ==
    [exc |-> e.exc, typ |-> e.typ, val |-> e.val, f |-> e.f,
     calls |-> calls, elem |-> e.exc]

\* The loop ran to its end and the function returned v.
Return(v, f, calls) ==
    [exc |-> NoExc, typ |-> "value", val |-> v, f |-> f,
     calls |-> calls, elem |-> NoExc]

\* The loop ran to its end and the function ended without a return value.
ReturnNone(f, calls) ==
    [exc |-> NoExc, typ |-> "NoneType", val |-> <<>>, f |-> f,
     calls |-> calls, elem |-> NoExc]

\* The call that writes or reads the count raised: no element call was made.
NoLoop(a) ==
    [exc |-> a.exc, typ |-> a.typ, val |-> a.val, f |-> a.f,
     calls |-> 0, elem |-> NoExc]

\* One pass of a loop: e is the element call, more(e) the rest of the loop.
Pass(e, calls, more(_)) == IF e.exc # NoExc THEN Abort(e, calls) ELSE more(e)

\* The count is written or read by a, then loop(a) runs.
Counted(a, loop(_)) == IF a.exc # NoExc THEN NoLoop(a) ELSE loop(a)

RECURSIVE VectorSerializer_serialize_loop(_, _, _, _)
VectorSerializer_serialize_loop(inner_cls, objs, k, f) ==
    IF k > Len(objs) THEN ReturnNone(f, k - 1)
    ELSE Pass(inner_stream_serialize(inner_cls, objs[k], f), k, LAMBDA e :
              VectorSerializer_serialize_loop(inner_cls, objs, k + 1, e.f))

VectorSerializer_stream_serialize(inner_cls, objs, f) ==
    Counted(VarIntSerializer_stream_serialize(FromNat(Len(objs)), f),
            LAMBDA a : VectorSerializer_serialize_loop(inner_cls, objs, 1, a.f))

\* Mutant: the loop ends one element early.
RECURSIVE VectorSerializer_deserialize_loop_short(_, _, _, _, _)
VectorSerializer_deserialize_loop_short(inner_cls, n, i, r, f) ==
    IF ~Lt(FromNat(i + 1), n) THEN Return(r, f, i)
    ELSE Pass(inner_stream_deserialize(inner_cls, f), i + 1, LAMBDA e :
              VectorSerializer_deserialize_loop_short(inner_cls, n, i + 1,
                                                      Append(r, e.val), e.f))

\* Mutant: a failed element ends the loop and the elements decoded so far
\* are returned.
RECURSIVE VectorSerializer_deserialize_loop_partial(_, _, _, _, _)
VectorSerializer_deserialize_loop_partial(inner_cls, n, i, r, f) ==
    IF ~Lt(FromNat(i), n) THEN Return(r, f, i)
    ELSE IF inner_stream_deserialize(inner_cls, f).exc # NoExc
    THEN Return(r, inner_stream_deserialize(inner_cls, f).f, i + 1)
    ELSE Pass(inner_stream_deserialize(inner_cls, f), i + 1, LAMBDA e :
              VectorSerializer_deserialize_loop_partial(inner_cls, n, i + 1,
                                                        Append(r, e.val), e.f))

\* for i in range(n): r.append(inner_cls.stream_deserialize(f))
RECURSIVE VectorSerializer_deserialize_loop(_, _, _, _, _)
VectorSerializer_deserialize_loop(inner_cls, n, i, r, f) ==
    IF ~Lt(FromNat(i), n) THEN Return(r, f, i)
    ELSE Pass(inner_stream_deserialize(inner_cls, f), i + 1, LAMBDA e :
              VectorSerializer_deserialize_loop(inner_cls, n, i + 1,
                                                Append(r, e.val), e.f))

VectorSerializer_stream_deserialize(inner_cls, f) ==
    Counted(VarIntSerializer_stream_deserialize(f), LAMBDA n :
            VectorSerializer_deserialize_loop(inner_cls, n.val, 0, <<>>, n.f))

\* ------------------------------------------------ uint256VectorSerializer

RECURSIVE uint256VectorSerializer_serialize_loop(_, _, _)
uint256VectorSerializer_serialize_loop(uints, k, f) ==
    IF k > Len(uints) THEN ReturnNone(f, k - 1)
    ELSE IF Len(uints[k]) # 32
    THEN Abort(Raise("AssertionError", <<>>, f), k)
    ELSE uint256VectorSerializer_serialize_loop(
             uints, k + 1, BytesIO_write(f, uints[k]))

uint256VectorSerializer_stream_serialize(uints, f) ==
    Counted(VarIntSerializer_stream_serialize(FromNat(Len(uints)), f),
            LAMBDA a : uint256VectorSerializer_serialize_loop(uints, 1, a.f))

RECURSIVE uint256VectorSerializer_deserialize_loop(_, _, _, _)
uint256VectorSerializer_deserialize_loop(n, i, r, f) ==
    IF ~Lt(FromNat(i), n) THEN Return(r, f, i)
    ELSE Pass(ser_read(f, FromNat(32)), i + 1, LAMBDA e :
              uint256VectorSerializer_deserialize_loop(
                  n, i + 1, Append(r, e.val), e.f))

uint256VectorSerializer_stream_deserialize(f) ==
    Counted(VarIntSerializer_stream_deserialize(f), LAMBDA n :
            uint256VectorSerializer_deserialize_loop(n.val, 0, <<>>, n.f))

\* ----------------------------------------------------- intVectorSerialzer

RECURSIVE intVectorSerialzer_serialize_loop(_, _, _)
intVectorSerialzer_serialize_loop(ints, k, f) ==
    IF k > Len(ints) THEN ReturnNone(f, k - 1)
    ELSE intVectorSerialzer_serialize_loop(
             ints, k + 1, BytesIO_write(f, pack_i(ints[k])))

intVectorSerialzer_stream_serialize(ints, f) ==
    Counted(VarIntSerializer_stream_serialize(FromNat(Len(ints)), f),
            LAMBDA a : intVectorSerialzer_serialize_loop(ints, 1, a.f))

\* ints.append(struct.unpack(b"<i", ser_read(f, 4))): struct.unpack returns
\* a tuple, and the function ends without a return statement.
RECURSIVE intVectorSerialzer_deserialize_loop(_, _, _, _)
intVectorSerialzer_deserialize_loop(l, i, ints, f) ==
    IF ~Lt(FromNat(i), l) THEN ReturnNone(f, i)
    ELSE Pass(ser_read(f, FromNat(4)), i + 1, LAMBDA e :
              intVectorSerialzer_deserialize_loop(
                  l, i + 1, Append(ints, <<unpack_i(e.val)>>), e.f))

intVectorSerialzer_stream_deserialize(f) ==
    Counted(VarIntSerializer_stream_deserialize(f), LAMBDA l :
            intVectorSerialzer_deserialize_loop(l.val, 0, <<>>, l.f))

\* ------------------------------------------------------------ Serializer

\* cls.stream_deserialize(f) as Serializer.deserialize calls it: with the
\* stream as its only argument.  VectorSerializer.stream_deserialize takes
\* (inner_cls, f), so the call is short of an argument.
cls_stream_deserialize(cls, f) ==
    CASE cls = "VarIntSerializer" -> VarIntSerializer_stream_deserialize(f)
      [] cls = "BytesSerializer" -> BytesSerializer_stream_deserialize(f)
      [] cls = "VarStringSerializer" -> VarStringSerializer_stream_deserialize(f)
      [] cls = "uint256VectorSerializer" ->
             uint256VectorSerializer_stream_deserialize(f)
      [] cls = "intVectorSerialzer" -> intVectorSerialzer_stream_deserialize(f)
      [] OTHER -> Raise("TypeError", "stream_deserialize() missing 1 required positional argument", f)

Serializer_deserialize(cls, buf) == cls_stream_deserialize(cls, BytesIO(buf))

\* =========================================================== state machine

VARIABLES
    w,       \* the stream the writer serializes to
    sent,    \* the stream_serialize calls made on w, in order
    f,       \* the stream the reader deserializes from
    opened,  \* the reader's stream exists
    cut,     \* how many bytes of w's contents were lost on the way to f
    nread,   \* the stream_deserialize calls made on f
    sync,    \* each of them used the codec of the value at its place in sent
    res,     \* the last call: what was called, with what, and its outcome
    objs,    \* the Serializable objects constructed
    cmp      \* the last comparison of two of them

vars == <<w, sent, f, opened, cut, nread, sync, res, objs, cmp>>

\* Bounds of the model.
MaxWrites == 2

MaxVec == 3

MaxCut == 1

MaxLen == 2

MaxObjs == 2

\* The record of a call: r is what the call returned, before the stream it
\* was given.
Call(op, cls, inner, arg, r, before) ==
    [op |-> op, cls |-> cls, inner |-> inner, arg |-> arg,
     exc |-> r.exc, typ |-> r.typ, val |-> r.val,
     calls |-> IF "calls" \in DOMAIN r THEN r.calls ELSE 0,
     elem |-> IF "elem" \in DOMAIN r THEN r.elem ELSE NoExc,
     before |-> before]

\* No comparison was made yet.
NoCmp == [done |-> FALSE, a |-> 0, b |-> 0, ret |-> "", eq |-> "", ne |-> ""]

NoCall == Call("", "", "", <<>>, OkNone(BytesIO(<<>>)), BytesIO(<<>>))

Init ==
    /\ w = BytesIO(<<>>)
    /\ sent = <<>>
    /\ f = BytesIO(<<>>)
    /\ opened = FALSE
    /\ cut = 0
    /\ nread = 0
    /\ sync = TRUE
    /\ res = NoCall
    /\ objs = <<>>
    /\ cmp = NoCmp

\* A stream_serialize call on w that returned (or raised) r.  An exception
\* leaves the writer: it makes no call after one that raised.
Serialized(cls, inner, obj, r) ==
    /\ ~opened
    /\ Len(sent) < MaxWrites
    /\ Len(sent) > 0 => sent[Len(sent)].exc = NoExc
    /\ w' = r.f
    /\ sent' = Append(sent, [cls |-> cls, inner |-> inner, obj |-> obj,
                             exc |-> r.exc, start |-> Len(w.buf),
                             end |-> Len(r.f.buf)])
    /\ res' = Call("stream_serialize", cls, inner, obj, r, w)
    /\ UNCHANGED <<f, opened, cut, nread, sync, objs, cmp>>

SerializeVarInt(i) ==
    Serialized("VarIntSerializer", "", i,
               VarIntSerializer_stream_serialize(i, w))

SerializeBytes(b) ==
    Serialized("BytesSerializer", "", b,
               BytesSerializer_stream_serialize(b, w))

SerializeVarString(s) ==
    Serialized("VarStringSerializer", "", s,
               VarStringSerializer_stream_serialize(s, w))

SerializeVector(inner_cls, objs_) ==
    Serialized("VectorSerializer", inner_cls, objs_,
               VectorSerializer_stream_serialize(inner_cls, objs_, w))

SerializeUint256Vector(uints) ==
    Serialized("uint256VectorSerializer", "", uints,
               uint256VectorSerializer_stream_serialize(uints, w))

SerializeIntVector(ints) ==
    Serialized("intVectorSerialzer", "", ints,
               intVectorSerialzer_stream_serialize(ints, w))

\* The reader wraps the bytes that reached it, BytesIO(buf): all of w's
\* contents, or all but the last c bytes.
Open(c) ==
    /\ ~opened
    /\ Len(sent) > 0
    /\ c <= Len(getvalue(w))
    /\ f' = BytesIO(SubSeq(getvalue(w), 1, Len(getvalue(w)) - c))
    /\ opened' = TRUE
    /\ cut' = c
    /\ nread' = 0
    /\ sync' = TRUE
    /\ res' = Call("BytesIO", "", "", <<>>, OkNone(f'), f)
    /\ UNCHANGED <<w, sent, objs, cmp>>

\* A stream_deserialize call on f that returned (or raised) r.  The reader
\* makes no more calls than values were sent, and none after a call that
\* raised or that used another codec than the value's.
Deserialized(cls, inner, r) ==
    /\ opened
    /\ res.op # "deserialize"
    /\ sync
    /\ nread < Len(sent)
    /\ nread > 0 => res.exc = NoExc
    /\ f' = r.f
    /\ nread' = nread + 1
    /\ sync' = /\ sent[nread + 1].cls = cls
               /\ sent[nread + 1].inner = inner
    /\ res' = Call("stream_deserialize", cls, inner, <<>>, r, f)
    /\ UNCHANGED <<w, sent, opened, cut, objs, cmp>>

DeserializeVarInt ==
    Deserialized("VarIntSerializer", "",
                 VarIntSerializer_stream_deserialize(f))

DeserializeBytes ==
    Deserialized("BytesSerializer", "", BytesSerializer_stream_deserialize(f))

DeserializeVarString ==
    Deserialized("VarStringSerializer", "",
                 VarStringSerializer_stream_deserialize(f))

DeserializeVector(inner_cls) ==
    Deserialized("VectorSerializer", inner_cls,
                 VectorSerializer_stream_deserialize(inner_cls, f))

DeserializeUint256Vector ==
    Deserialized("uint256VectorSerializer", "",
                 uint256VectorSerializer_stream_deserialize(f))

DeserializeIntVector ==
    Deserialized("intVectorSerialzer", "",
                 intVectorSerialzer_stream_deserialize(f))

\* cls.deserialize(buf): the stream is the call's own, so nothing is read
\* from it afterwards.
DeserializedBuf(cls, buf, r) ==
    /\ f' = r.f
    /\ res' = Call("deserialize", cls, "", buf, r, BytesIO(buf))

Deserialize(cls, c) ==
    /\ ~opened
    /\ Len(sent) > 0
    /\ c <= Len(getvalue(w))
    /\ DeserializedBuf(cls, SubSeq(getvalue(w), 1, Len(getvalue(w)) - c),
            Serializer_deserialize(
                cls, SubSeq(getvalue(w), 1, Len(getvalue(w)) - c)))
    /\ opened' = TRUE
    /\ cut' = c
    /\ nread' = 1
    /\ sync' = /\ sent[1].cls = cls
               /\ sent[1].inner = ""
    /\ UNCHANGED <<w, sent, objs, cmp>>

\* ser_read(f, n) called on the reader's stream directly.
Read(n, r) ==
    /\ f' = r.f
    /\ res' = Call("ser_read", "", "", n, r, f)

SerRead(n) ==
    /\ opened
    /\ Read(n, ser_read(f, n))
    /\ sync' = FALSE
    /\ UNCHANGED <<w, sent, opened, cut, nread, objs, cmp>>

\* ---------------------------------------------------------- Serializable

\* The concrete variants: VariantA holds one VarInt field, VariantA1 is a
\* subclass of VariantA that inherits its stream_serialize, VariantB holds
\* one byte string and is no relative of the other two.
Bases(cls) ==
    CASE cls = "VariantA" -> {"VariantA", "Serializable", "object"}
      [] cls = "VariantA1" -> {"VariantA1", "VariantA", "Serializable", "object"}
      [] cls = "VariantB" -> {"VariantB", "Serializable", "object"}
      [] OTHER -> {cls, "object"}

isinstance(obj, cls) == cls \in Bases(obj.cls)

self_stream_serialize(self, f_) ==
    IF self.cls = "VariantB"
    THEN BytesSerializer_stream_serialize(self.x, f_)
    ELSE VarIntSerializer_stream_serialize(self.x, f_)

Serializable_serialize(self) ==
    getvalue(self_stream_serialize(self, BytesIO(<<>>)).f)

\* Mutant: the classes are not looked at.
Serializable___eq___bytes(self, other) ==
    IF Serializable_serialize(self) = Serializable_serialize(other)
    THEN "True" ELSE "False"

Serializable___eq__(self, other) ==
    IF ~isinstance(other, self.cls) /\ ~isinstance(self, other.cls)
    THEN "NotImplemented"
    ELSE IF Serializable_serialize(self) = Serializable_serialize(other)
         THEN "True" ELSE "False"

\* self == other as Python evaluates it: the method, then the reflected
\* method, and when both return NotImplemented the identity of the objects.
PyEq(self, other) ==
    LET r1 == Serializable___eq__(self, other)
        r2 == Serializable___eq__(other, self)
    IN  IF r1 # "NotImplemented" THEN r1
        ELSE IF r2 # "NotImplemented" THEN r2
        ELSE IF self.id = other.id THEN "True" ELSE "False"

Serializable___ne__(self, other) ==
    IF PyEq(self, other) = "True" THEN "False" ELSE "True"

\* An object is constructed.
New(cls, x) ==
    /\ Len(objs) < MaxObjs
    /\ objs' = Append(objs, [id |-> Len(objs) + 1, cls |-> cls, x |-> x])
    /\ UNCHANGED <<w, sent, f, opened, cut, nread, sync, res, cmp>>

\* objs[i] == objs[j] and objs[i] != objs[j] are evaluated.
Compare(i, j) ==
    /\ cmp' = [done |-> TRUE, a |-> i, b |-> j,
               ret |-> Serializable___eq__(objs[i], objs[j]),
               eq |-> PyEq(objs[i], objs[j]),
               ne |-> Serializable___ne__(objs[i], objs[j])]
    /\ UNCHANGED <<w, sent, f, opened, cut, nread, sync, res, objs>>

\* ------------------------------------------------------------ the inputs

UINT64_MAX == [neg |-> FALSE, w |-> <<65535, 65535, 65535, 65535>>]

\* The values around each tier boundary of the VarInt encoding.
BoundaryInts ==
    {FromNat(0), FromNat(1), FromNat(252), FromNat(253), FromNat(254),
     FromNat(255), FromNat(256), FromNat(65535), FromNat(65536),
     FromNat(MAX_SIZE), FromNat(MAX_SIZE + 1),
     [neg |-> FALSE, w |-> <<65535, 65535, 0, 0>>],
     [neg |-> FALSE, w |-> <<0, 0, 1, 0>>],
     [neg |-> FALSE, w |-> <<4660, 22136, 39612, 57072>>],
     UINT64_MAX, Neg(1)}

\* The VarInts written on their own to the stream of mixed values are small:
\* a reader that takes one for a vector's count then loops over no more
\* than two elements.  The larger values are written there as the elements
\* of vectors, and on their own under SpecVarInt.
SomeInts == {FromNat(0), FromNat(2), Neg(1)}

RECURSIVE Strings(_, _)
Strings(alphabet, n) ==
    IF n = 0 THEN {<<>>}
    ELSE LET shorter == Strings(alphabet, n - 1) IN
         shorter \cup {Append(s_, c) : s_ \in shorter, c \in alphabet}

\* A byte string of length n with bytes that differ from place to place.
Pattern(n) == [j \in 1..n |-> (j * 7) % 256]

ShortBytes == Strings({0, 255}, MaxLen)

\* Lengths on both sides of the first tier boundary of the length prefix.
LongBytes == {Pattern(252), Pattern(253), Pattern(256)}

SomeBytes == {<<>>, <<7, 8>>}

SomeStrings == {<<65>>}

\* The vectors: the first n of a row of distinct elements, n up to MaxVec.
VarIntElem(k) == FromNat(251 + k)

BytesElem(k) == [j \in 1..(k - 1) |-> 10 * k + j]

Uint256Elem(k) == [j \in 1..32 |-> (64 * k + j) % 256]

IntElem(k) ==
    CASE k = 1 -> -1
      [] k = 2 -> 258
      [] k = 3 -> (-2147483647) - 1
      [] OTHER -> 2147483647 - k

VectorLens == 0..MaxVec

\* A 32-byte vector with an element one byte short.
BadUints == <<Uint256Elem(1), SubSeq(Uint256Elem(2), 1, 31)>>

ReadBufs == Strings({7, 9}, MaxLen + 1)

ReadSizes ==
    {FromNat(0), FromNat(1), FromNat(2), FromNat(3), FromNat(5),
     FromNat(MAX_SIZE - 1), FromNat(MAX_SIZE), FromNat(MAX_SIZE + 1),
     [neg |-> FALSE, w |-> <<0, 0, 1, 0>>], UINT64_MAX, Neg(1)}

Classes ==
    {"VarIntSerializer", "BytesSerializer", "VarStringSerializer",
     "VectorSerializer", "uint256VectorSerializer", "intVectorSerialzer"}

InnerClasses == {"VarIntSerializer", "BytesSerializer"}

\* -------------------------------------------------------- specifications

\* A writer serializes values of every kind to one stream; a reader
\* deserializes from the bytes that reach it.
Next ==
    \/ \E i \in SomeInts : SerializeVarInt(i)
    \/ \E b \in SomeBytes : SerializeBytes(b)
    \/ \E s_ \in SomeStrings : SerializeVarString(s_)
    \/ \E n \in VectorLens :
           SerializeVector("VarIntSerializer", [k \in 1..n |-> VarIntElem(k)])
    \/ \E n \in VectorLens :
           SerializeVector("BytesSerializer", [k \in 1..n |-> BytesElem(k)])
    \/ \E n \in VectorLens :
           SerializeUint256Vector([k \in 1..n |-> Uint256Elem(k)])
    \/ SerializeUint256Vector(BadUints)
    \/ \E n \in VectorLens : SerializeIntVector([k \in 1..n |-> IntElem(k)])
    \/ \E c \in 0..MaxCut : Open(c)
    \/ DeserializeVarInt
    \/ DeserializeBytes
    \/ DeserializeVarString
    \/ \E inner_cls \in InnerClasses : DeserializeVector(inner_cls)
    \/ DeserializeUint256Vector
    \/ DeserializeIntVector
    \/ \E cls \in Classes, c \in 0..MaxCut : Deserialize(cls, c)

Spec == Init /\ [][Next]_vars

\* VarInts around every tier boundary, written and read back.
NextVarInt ==
    \/ \E i \in BoundaryInts : SerializeVarInt(i)
    \/ \E c \in 0..MaxCut : Open(c)
    \/ DeserializeVarInt
    \/ \E c \in 0..MaxCut : Deserialize("VarIntSerializer", c)

SpecVarInt == Init /\ [][NextVarInt]_vars

\* Byte strings whose length prefix falls in the first and the second tier.
NextBytes ==
    \/ \E b \in ShortBytes \cup LongBytes : SerializeBytes(b)
    \/ \E s_ \in SomeStrings \cup {Pattern(253)} : SerializeVarString(s_)
    \/ \E c \in 0..MaxCut : Open(c)
    \/ DeserializeBytes
    \/ DeserializeVarString

SpecBytes == Init /\ [][NextBytes]_vars

\* ser_read on streams of a few bytes, with every kind of size.
InitRead ==
    /\ w = BytesIO(<<>>)
    /\ sent = <<>>
    /\ f \in {BytesIO(b) : b \in ReadBufs}
    /\ opened = TRUE
    /\ cut = 0
    /\ nread = 0
    /\ sync = TRUE
    /\ res = NoCall
    /\ objs = <<>>
    /\ cmp = NoCmp

NextRead == \E n \in ReadSizes : SerRead(n)

SpecRead == InitRead /\ [][NextRead]_vars

\* Objects of the three variants, constructed and compared.
NextEq ==
    \/ \E x \in {FromNat(0), FromNat(1)} : New("VariantA", x)
    \/ \E x \in {FromNat(0), FromNat(1)} : New("VariantA1", x)
    \/ \E x \in {<<>>, <<7>>} : New("VariantB", x)
    \/ \E i \in 1..Len(objs), j \in 1..Len(objs) : Compare(i, j)

SpecEq == Init /\ [][NextEq]_vars

\* ================================================================ claims

\* The first k stream_serialize calls all returned.
SentOk(k) == \A j \in 1..k : sent[j].exc = NoExc

\* The last call decoded, from bytes that arrived whole, the nread-th value
\* sent, with the codec it was sent with, as did every call before it.
InOrder ==
    /\ opened
    /\ cut = 0
    /\ sync
    /\ nread >= 1
    /\ res.op \in {"stream_deserialize", "deserialize"}
    /\ SentOk(nread)

\* The bytes the k-th stream_serialize call wrote.
Written(k) == SubSeq(w.buf, sent[k].start + 1, sent[k].end)

\* The j-th byte, least significant first, of the non-negative int i.
ByteOf(i, j) ==
    IF j % 2 = 1 THEN i.w[(j + 1) \div 2] % 256 ELSE i.w[j \div 2] \div 256

\* The bytes left in stream s from its cursor on.
Remaining(s) == Len(s.buf) - s.pos

\* ------------------------------------------------------------------- C1
\* C1: a VarInt i in 0 .. 2^64-1 written by VarIntSerializer.stream_serialize
\* and read back by VarIntSerializer.stream_deserialize from the bytes
\* written comes back as exactly i.
C1_VarIntRoundTrip ==
    (InOrder /\ res.cls = "VarIntSerializer")
        => /\ res.exc = NoExc
           /\ res.typ = "value"
           /\ res.val = sent[nread].obj

\* The second of two VarInts read back is 2^32, the first value of the
\* 9-byte tier.
C1_Witness ==
    /\ InOrder
    /\ res.cls = "VarIntSerializer"
    /\ nread = 2
    /\ sent[2].obj = [neg |-> FALSE, w |-> <<0, 0, 1, 0>>]
    /\ res.exc = NoExc

\* ------------------------------------------------------------------- C2
\* The size of the smallest tier that holds i.
TierSize(i) ==
    IF i.w[4] # 0 \/ i.w[3] # 0 THEN 9
    ELSE IF i.w[2] # 0 THEN 5
    ELSE IF i.w[1] >= 253 THEN 3
    ELSE 1

\* enc is i in the tier of the given size: the value itself in one byte, or
\* the tier's marker and i in size - 1 bytes, least significant first.
InTier(i, enc, size) ==
    /\ Len(enc) = size
    /\ IF size = 1 THEN enc[1] = ByteOf(i, 1)
       ELSE /\ enc[1] = (CASE size = 3 -> 253 [] size = 5 -> 254 [] OTHER -> 255)
            /\ \A j \in 1..(size - 1) : enc[j + 1] = ByteOf(i, j)

\* C2: VarIntSerializer.stream_serialize(i), 0 <= i <= 2^64-1, writes the
\* smallest tier that holds i: 1 byte below 0xfd, 3 bytes up to 0xffff,
\* 5 bytes up to 0xffffffff, 9 bytes above.
C2_SmallestTier ==
    \A k \in 1..Len(sent) :
        (sent[k].cls = "VarIntSerializer" /\ ~sent[k].obj.neg)
            => /\ sent[k].exc = NoExc
               /\ InTier(sent[k].obj, Written(k), TierSize(sent[k].obj))

\* 0xffff was written in 3 bytes and then 0x10000 in 5.
C2_Witness ==
    /\ Len(sent) = 2
    /\ sent[1].cls = "VarIntSerializer"
    /\ sent[1].obj = FromNat(65535)
    /\ Len(Written(1)) = 3
    /\ sent[2].obj = FromNat(65536)
    /\ Len(Written(2)) = 5

\* ------------------------------------------------------------------- C3
\* C3: ser_read(f, n) with n > MAX_SIZE raises SerializationError and
\* leaves the stream, cursor and contents, as it was, whatever the stream
\* holds; n = MAX_SIZE is not refused as oversize.
C3_OversizeRejected ==
    res.op = "ser_read"
        => /\ Gt(res.arg, FromNat(MAX_SIZE))
                  => (res.exc = "SerializationError" /\ f = res.before)
           /\ res.arg = FromNat(MAX_SIZE) => res.exc # "SerializationError"

\* MAX_SIZE + 1 bytes were asked of a stream with two of its three bytes
\* left.
C3_Witness ==
    /\ res.op = "ser_read"
    /\ res.arg = FromNat(MAX_SIZE + 1)
    /\ Len(f.buf) = 3
    /\ f.pos = 1
    /\ res.exc = "SerializationError"

PrefixAt(p) ==
    VarIntSerializer_stream_deserialize([buf |-> w.buf, pos |-> p]).val

\* C5: a byte string b written by BytesSerializer (or VarStringSerializer)
\* and read back by it comes back as exactly b, as long as its VarInt
\* length prefix says.
C5_BytesRoundTrip ==
    (InOrder /\ res.cls \in {"BytesSerializer", "VarStringSerializer"})
        => /\ res.exc = NoExc
           /\ res.typ = "value"
           /\ res.val = sent[nread].obj
           /\ FromNat(Len(res.val)) = PrefixAt(sent[nread].start)

\* A byte string of 253 bytes, the first length with a 3-byte prefix, was
\* read back after an empty one.
C5_Witness ==
    /\ InOrder
    /\ res.cls = "BytesSerializer"
    /\ nread = 2
    /\ sent[1].obj = <<>>
    /\ Len(sent[2].obj) = 253
    /\ res.exc = NoExc

\* ------------------------------------------------------------------- C6
VectorClasses == {"VectorSerializer", "uint256VectorSerializer"}

\* The last call was a vector decode: stream_deserialize of either class, or
\* uint256VectorSerializer.deserialize.
VectorDecode ==
    /\ res.op \in {"stream_deserialize", "deserialize"}
    /\ res.cls \in VectorClasses
    /\ res.cls = "VectorSerializer" => res.op = "stream_deserialize"

\* The VarInt count at the head of the stream the last call was given.
CountOf(call) == VarIntSerializer_stream_deserialize(call.before)

\* C6: a vector decode that reads the count n and returns has made exactly
\* n element calls and returns n elements in stream order (for 32-byte
\* elements: the n runs of 32 bytes after the count); a sequence written by
\* a vector codec and read back by it comes back the same.
C6_VectorDecode ==
    /\ (VectorDecode /\ res.exc = NoExc)
           => /\ CountOf(res).exc = NoExc
              /\ FromNat(res.calls) = CountOf(res).val
              /\ res.typ = "value"
              /\ Len(res.val) = res.calls
              /\ res.cls = "uint256VectorSerializer"
                     => \A k \in 1..res.calls :
                            res.val[k] =
                                SubSeq(res.before.buf,
                                       CountOf(res).f.pos + 32 * (k - 1) + 1,
                                       CountOf(res).f.pos + 32 * k)
    /\ (VectorDecode /\ InOrder)
           => /\ res.exc = NoExc
              /\ res.typ = "value"
              /\ res.val = sent[nread].obj

\* Three distinct 32-byte values were read back in the order written.
C6_Witness ==
    /\ VectorDecode
    /\ InOrder
    /\ res.cls = "uint256VectorSerializer"
    /\ res.calls = 3
    /\ res.val = <<Uint256Elem(1), Uint256Elem(2), Uint256Elem(3)>>
    /\ Uint256Elem(1) # Uint256Elem(2)
    /\ Uint256Elem(2) # Uint256Elem(3)
    /\ Uint256Elem(1) # Uint256Elem(3)

\* ------------------------------------------------------------------- C7
\* The decode of one element of the vector the call reads.
ElementDecode(call, s) ==
    IF call.cls = "uint256VectorSerializer" THEN ser_read(s, FromNat(32))
    ELSE inner_stream_deserialize(call.inner, s)

\* The exception of the first of the n announced elements, from the k-th on,
\* whose decode fails on stream s; NoExc when all n decode.
RECURSIVE FirstFailure(_, _, _, _)
FirstFailure(call, s, n, k) ==
    IF ~Lt(FromNat(k - 1), n) THEN NoExc
    ELSE LET e == ElementDecode(call, s) IN
         IF e.exc # NoExc THEN e.exc
         ELSE FirstFailure(call, e.f, n, k + 1)

\* An element of the vector the last call read fails to decode.
ElementFails ==
    /\ VectorDecode
    /\ CountOf(res).exc = NoExc
    /\ FirstFailure(res, CountOf(res).f, CountOf(res).val, 1) # NoExc

\* C7: when the decode of one of the announced elements fails, the vector
\* decode (and the deserialize call around it) raises that element's
\* exception and returns nothing: not the elements decoded before it.
C7_AbortOnElementFailure ==
    ElementFails
        => /\ res.exc = FirstFailure(res, CountOf(res).f, CountOf(res).val, 1)
           /\ res.typ = "exception"
           /\ res.elem = res.exc

\* The third of three announced elements was cut short: two were decoded
\* before the call raised.
C7_Witness ==
    /\ ElementFails
    /\ res.cls = "VectorSerializer"
    /\ CountOf(res).val = FromNat(3)
    /\ res.calls = 3
    /\ res.exc = "SerializationTruncationError"

\* ------------------------------------------------------------------- C8
SameBytes(a, b) == Serializable_serialize(a) = Serializable_serialize(b)

Related(a, b) == isinstance(b, a.cls) \/ isinstance(a, b.cls)

\* C8 as claimed: a == b exactly when a.serialize() and b.serialize() are
\* the same bytes, for any two Serializable instances, also of variants
\* neither of which is a subclass of the other.
C8_EqualIffSameBytes ==
    cmp.done
        => ((cmp.eq = "True") <=> SameBytes(objs[cmp.a], objs[cmp.b]))

\* C8 as amended: when one object's class is the other's or a subclass of
\* it, a == b exactly when the serialized bytes are the same; when neither
\* class is a subclass of the other, __eq__ returns NotImplemented and
\* a == b is False (a != b True) whatever the bytes.
C8_EqualIffSameBytesWhenRelated ==
    cmp.done
        => IF Related(objs[cmp.a], objs[cmp.b])
           THEN /\ (cmp.eq = "True") <=> SameBytes(objs[cmp.a], objs[cmp.b])
                /\ (cmp.ne = "True") <=> ~SameBytes(objs[cmp.a], objs[cmp.b])
           ELSE /\ cmp.ret = "NotImplemented"
                /\ cmp.eq = "False"
                /\ cmp.ne = "True"

\* Two objects of unrelated variants with the same serialized bytes were
\* compared and found unequal.
C8_Witness ==
    /\ cmp.done
    /\ ~Related(objs[cmp.a], objs[cmp.b])
    /\ SameBytes(objs[cmp.a], objs[cmp.b])
    /\ cmp.eq = "False"

\* ------------------------------------------------------------------- C9
\* C9: intVectorSerialzer.stream_deserialize, given the encoding of a
\* sequence of n 32-bit signed integers, returns a sequence of length n
\* with the same integers in the same order.
C9_IntVectorReturned ==
    (InOrder /\ res.cls = "intVectorSerialzer")
        => /\ res.exc = NoExc
           /\ res.typ = "value"
           /\ Len(res.val) = Len(sent[nread].obj)
           /\ res.val = sent[nread].obj

\* ------------------------------------------------------------------ C10
CursorClasses ==
    {"VarIntSerializer", "BytesSerializer", "VarStringSerializer",
     "VectorSerializer", "uint256VectorSerializer"}

\* C10: a decode of the next value of the stream (VarInt, byte string,
\* vector) returns it and moves the cursor from the first byte of the
\* value's encoding to just past its last, leaving the stream's contents as
\* they were: values written back to back are read back in order.
C10_CursorAdvance ==
    (InOrder /\ res.op = "stream_deserialize" /\ res.cls \in CursorClasses)
        => /\ res.exc = NoExc
           /\ res.before.pos = sent[nread].start
           /\ f.pos = sent[nread].end
           /\ f.buf = getvalue(w)
           /\ res.val = sent[nread].obj

\* A vector of two VarInts and then a byte string were read back from one
\* stream.
C10_Witness ==
    /\ InOrder
    /\ res.op = "stream_deserialize"
    /\ nread = 2
    /\ sent[1].cls = "VectorSerializer"
    /\ Len(sent[1].obj) = 2
    /\ res.cls = "BytesSerializer"
    /\ res.val = <<7, 8>>
    /\ f.pos = Len(f.buf)

====
